---- MODULE Spec2Model ----
(***************************************************************************)
(* Model of brede.data.sbs2 (class SBS2Data): the electrode catalog, the   *)
(* asset files below <data_dir>/sbs2, unpack/download, the forward model,  *)
(* the spatial coherence matrices and the inverse model.                   *)
(*                                                                         *)
(* Numbers.  Entries of the asset files are small integers.  The forward   *)
(* model is computed entry by entry.  Matrix products, sums and            *)
(* pseudo-inverses are kept as expressions over the matrices they are      *)
(* applied to (entries of F'F are of the order 10^12), with the shapes     *)
(* numpy checks computed on them.  inv_beta / inv_alpha is an exact        *)
(* fraction in lowest terms.                                               *)
(***************************************************************************)
EXTENDS Integers, Sequences, FiniteSets, TLC

VARIABLES
    remote,       \* what `svn export SBS2_SVN_DIR` delivers: dir -> file -> asset
    sbs2_dir,     \* exists(self.sbs2_dir)
    sbs2_data,    \* exists(join(self.sbs2_dir, 'sbs2_data'))
    constructed,  \* some SBS2Data() instance exists
    catalog,      \* the module-level lists SBS2_ELECTRODES_EMOTIV / _EMOCAP
    held,         \* the catalog list the caller holds a reference to ("" if none)
    edits,        \* number of in-place edits the caller made to a held list
    last,         \* the latest call: operation, arguments, outcome, result
    kept,         \* an earlier call remembered for comparison with later ones
    since,        \* calls made since kept was remembered (counted up to MaxSince)
    cwd,          \* the process-wide current working directory
    cwd_data,     \* an sbs2_data directory left in the original working directory
    tmp,          \* per thread: the directory made by mkdtemp()
    pc,           \* per thread: position in the code
    ret,          \* per thread: the caller unpack() returns to
    saved_dir,    \* per thread: the local saved_dir of download()
    tcall,        \* per thread: the call it makes
    tres          \* per thread: the outcome of its call

vars == <<remote, sbs2_dir, sbs2_data, constructed, catalog, held, edits, last,
          kept, since, cwd, cwd_data, tmp, pc, ret, saved_dir, tcall, tres>>

seqvars == <<remote, sbs2_dir, sbs2_data, constructed, catalog, held, edits,
             last, kept, since>>

thrvars == <<cwd, cwd_data, tmp, pc, ret, saved_dir, tcall, tres>>

----------------------------------------------------------------------------
(* Bounds of the model *)

MaxSources == 2     \* vertices of the reduced mesh (1028 in the data set)
MaxEdits == 1       \* in-place edits a caller makes to a returned list
MaxSince == 2       \* calls counted after the remembered one

----------------------------------------------------------------------------
(* Program constants *)

SBS2_ELECTRODES_EMOTIV ==
    <<"P7", "FC6", "T7", "P8", "O2", "O1", "FC5",
      "F3", "F4", "T8", "F7", "F8", "AF4", "AF3">>

SBS2_ELECTRODES_EMOCAP ==
    <<"TP10", "Fz", "P3", "Cz", "C4", "TP9", "Pz", "P4",
      "F3", "C3", "O1", "F4", "Fpz", "O2">>

SBS2Scale == 1000000

ForwardFile == "forwardmodel_spheres_reduced.txt"
CoherenceFile == "spatialCoherenceSmooth0-2_reduced.txt"
InverseCoherenceFile == "spatialCoherenceSmooth0-2_reduced_inverse.txt"

AssetFiles == {ForwardFile, CoherenceFile, InverseCoherenceFile}

HardwareDirs == {"emotiv", "emocap"}

Methods == {"minimumnorm", "LORETA"}

----------------------------------------------------------------------------
(* Arguments callers pass *)

HardwareArgs == {"emotiv", "emocap", "bogus", "./emocap"}
MethodArgs == {"minimumnorm", "LORETA", "bogus"}
AlphaArgs == {0, 1, 2}
BetaArgs == {0, 2, 4}

----------------------------------------------------------------------------
(* numpy arrays *)

RECURSIVE Gcd(_, _)
Gcd(a, b) == IF b = 0 THEN a ELSE Gcd(b, a % b)

\* inv_beta / inv_alpha for inv_alpha > 0 (true division), in lowest terms
Div(b, a) ==
    LET g == Gcd(b, a) IN [num |-> b \div g, den |-> a \div g]

Scalar(k) == [num |-> k, den |-> 1]

Lit(m) == [op |-> "lit", m |-> m]
Eye(n) == [op |-> "eye", n |-> n]
Dot(a, b) == [op |-> "dot", l |-> a, r |-> b]
Add(a, b) == [op |-> "add", l |-> a, r |-> b]
SMul(k, a) == [op |-> "smul", k |-> k, a |-> a]
Pinv(a) == [op |-> "pinv", a |-> a]

Rows(m) == Len(m)
Cols(m) == IF Len(m) = 0 THEN 0 ELSE Len(m[1])

TransposeLit(m) ==
    [c \in 1..Cols(m) |-> [r \in 1..Rows(m) |-> m[r][c]]]

\* ndarray.T
T(a) == IF a.op = "lit" THEN Lit(TransposeLit(a.m)) ELSE [op |-> "T", a |-> a]

\* integer * array, entry by entry on a matrix read from a file
Times(k, a) ==
    IF a.op = "lit"
    THEN Lit([r \in 1..Rows(a.m) |-> [c \in 1..Cols(a.m) |-> k * a.m[r][c]]])
    ELSE SMul(Scalar(k), a)

RECURSIVE Shape(_)
Shape(a) ==
    CASE a.op = "lit" -> <<Rows(a.m), Cols(a.m)>>
      [] a.op = "eye" -> <<a.n, a.n>>
      [] a.op = "T" -> <<Shape(a.a)[2], Shape(a.a)[1]>>
      [] a.op = "dot" -> <<Shape(a.l)[1], Shape(a.r)[2]>>
      [] a.op = "add" -> Shape(a.l)
      [] a.op = "smul" -> Shape(a.a)
      [] a.op = "pinv" -> <<Shape(a.a)[2], Shape(a.a)[1]>>

\* the shape checks of ndarray.dot and of +: FALSE where numpy raises ValueError
RECURSIVE Aligned(_)
Aligned(a) ==
    CASE a.op = "lit" -> TRUE
      [] a.op = "eye" -> TRUE
      [] a.op = "T" -> Aligned(a.a)
      [] a.op = "dot" ->
            Aligned(a.l) /\ Aligned(a.r) /\ Shape(a.l)[2] = Shape(a.r)[1]
      [] a.op = "add" ->
            Aligned(a.l) /\ Aligned(a.r) /\ Shape(a.l) = Shape(a.r)
      [] a.op = "smul" -> Aligned(a.a)
      [] a.op = "pinv" -> Aligned(a.a)

----------------------------------------------------------------------------
(* brede.core.matrix.Matrix: values with row and column labels *)

RangeIndex(n) == [kind |-> "range", n |-> n, names |-> << >>]
NameIndex(names) == [kind |-> "names", n |-> Len(names), names |-> names]

Matrix(a) ==
    [kind |-> "matrix", index |-> RangeIndex(Shape(a)[1]),
     columns |-> RangeIndex(Shape(a)[2]), values |-> a]

NoResult == [kind |-> "none"]
Names(names) == [kind |-> "names", names |-> names]

Raise(e) == [outcome |-> e, result |-> NoResult]
Return(r) == [outcome |-> "ok", result |-> r]

\* matrix.index = names: pandas raises ValueError on a length mismatch
SetIndex(matrix, names) ==
    IF Len(names) # matrix.index.n
    THEN Raise("ValueError")
    ELSE Return([matrix EXCEPT !.index = NameIndex(names)])

\* matrix.T
MatrixT(matrix) ==
    [kind |-> "matrix", index |-> matrix.columns, columns |-> matrix.index,
     values |-> T(matrix.values)]

----------------------------------------------------------------------------
(* The asset files *)

NoFile == [present |-> FALSE, values |-> << >>]
File(m) == [present |-> TRUE, values |-> m]

Seed(dir) == IF dir = "emotiv" THEN 1 ELSE 2

RawForward(dir, rows, cols) ==
    [r \in 1..rows |-> [c \in 1..cols |-> ((r * Seed(dir) + 2 * c) % 5) - 2]]

RawCoherence(dir, n, k) ==
    [r \in 1..n |->
        [c \in 1..n |-> (((r + c) * Seed(dir)) % 3) + (IF r = c THEN k ELSE 0)]]

Healthy(dir, S) ==
    (ForwardFile :> File(RawForward(dir, 14, S)))
    @@ (CoherenceFile :> File(RawCoherence(dir, S, 1)))
    @@ (InverseCoherenceFile :> File(RawCoherence(dir, S, 2)))

Defects == {"no_forward", "no_coherence", "coherence_dim", "forward_rows"}

Defective(dir, S, defect) ==
    CASE defect = "no_forward" ->
            [Healthy(dir, S) EXCEPT ![ForwardFile] = NoFile]
      [] defect = "no_coherence" ->
            [Healthy(dir, S) EXCEPT ![CoherenceFile] = NoFile,
                                    ![InverseCoherenceFile] = NoFile]
      [] defect = "coherence_dim" ->
            [Healthy(dir, S) EXCEPT
                ![CoherenceFile] = File(RawCoherence(dir, S + 1, 1)),
                ![InverseCoherenceFile] = File(RawCoherence(dir, S + 1, 2))]
      [] defect = "forward_rows" ->
            [Healthy(dir, S) EXCEPT ![ForwardFile] = File(RawForward(dir, 13, S))]

HealthyRemote == [dir \in HardwareDirs |-> Healthy(dir, MaxSources)]

Remotes ==
    {HealthyRemote}
    \cup {[HealthyRemote EXCEPT ![dir] = Defective(dir, MaxSources, defect)] :
            dir \in HardwareDirs, defect \in Defects}

----------------------------------------------------------------------------
(* unpack and download, run by one caller at a time *)

SvnOutcomes == {"ok", "fail", "absent"}

Disk(dir, data) == [dir |-> dir, data |-> data]

\* download(): make_dir, mkdtemp, chdir, call svn export, chdir back, move,
\* rmtree.  call() raises OSError when there is no svn program; a failed
\* export leaves nothing to move (IOError); move refuses an existing
\* sbs2_dir/sbs2_data (shutil.Error).  make_dir has run in every case.
download(fs, svn) ==
    CASE svn = "absent" -> [fs |-> Disk(TRUE, fs.data), err |-> "OSError"]
      [] svn = "fail" -> [fs |-> Disk(TRUE, fs.data), err |-> "IOError"]
      [] svn = "ok" /\ fs.data -> [fs |-> Disk(TRUE, TRUE), err |-> "ShutilError"]
      [] svn = "ok" /\ ~fs.data -> [fs |-> Disk(TRUE, TRUE), err |-> "ok"]

\* what svn can do in a call of unpack: it is run only by download
SvnRuns(fs, redownload) ==
    IF redownload \/ ~fs.dir \/ ~fs.data THEN SvnOutcomes ELSE {"unused"}

unpack(fs, redownload, svn) ==
    IF redownload \/ ~fs.dir \/ ~fs.data
    THEN download(fs, svn)
    ELSE [fs |-> fs, err |-> "ok"]

----------------------------------------------------------------------------
(* The core operations *)

Out(fs, o) == [fs |-> fs, outcome |-> o.outcome, result |-> o.result]

electrode_names_swapped(hardware) ==
    IF hardware = "emotiv" THEN Return(Names(catalog.emocap))
    ELSE IF hardware = "emocap" THEN Return(Names(catalog.emotiv))
    ELSE Raise("ValueError")

electrode_names(hardware) ==
    IF hardware = "emotiv" THEN Return(Names(catalog.emotiv))
    ELSE IF hardware = "emocap" THEN Return(Names(catalog.emocap))
    ELSE Raise("ValueError")

HardwareDirSticky(hardware) ==
    IF last.hardware \in HardwareDirs THEN last.hardware
    ELSE IF hardware = "./emocap" THEN "emocap" ELSE hardware

\* the directory join(..., 'hardware', hardware, ...) names
HardwareDir(hardware) ==
    IF hardware = "./emocap" THEN "emocap" ELSE hardware

\* Matrix(read_csv(filename, sep='\t', header=None))
ReadMatrix(fs, hardware, file) ==
    IF fs.data /\ HardwareDir(hardware) \in HardwareDirs
       /\ remote[HardwareDir(hardware)][file].present
    THEN Return(Matrix(Lit(remote[HardwareDir(hardware)][file].values)))
    ELSE Raise("IOError")

TransposeOnly(matrix) == MatrixT(matrix)

\* matrix *= 1000000; return matrix.T
ScaleAndTranspose(matrix) ==
    MatrixT([matrix EXCEPT !.values = Times(SBS2Scale, matrix.values)])

forward_model(fs, svn, hardware) ==
    LET u == unpack(fs, FALSE, svn)
        read == ReadMatrix(u.fs, hardware, ForwardFile)
        names == electrode_names(hardware)
        labelled == SetIndex(read.result, names.result.names)
    IN  IF u.err # "ok" THEN Out(u.fs, Raise(u.err))
        ELSE IF read.outcome # "ok" THEN Out(u.fs, read)
        ELSE IF names.outcome # "ok" THEN Out(u.fs, names)
        ELSE IF labelled.outcome # "ok" THEN Out(u.fs, labelled)
        ELSE Out(u.fs, Return(ScaleAndTranspose(labelled.result)))

PassThrough(fs, svn, hardware, file) ==
    LET u == unpack(fs, FALSE, svn)
    IN  IF u.err # "ok" THEN Out(u.fs, Raise(u.err))
        ELSE Out(u.fs, ReadMatrix(u.fs, hardware, file))

spatial_coherence(fs, svn, hardware) ==
    PassThrough(fs, svn, hardware, CoherenceFile)

inverse_spatial_coherence(fs, svn, hardware) ==
    PassThrough(fs, svn, hardware, InverseCoherenceFile)

minimumnorm_beta_only(forward, inv_alpha, inv_beta) ==
    Dot(Pinv(Add(Dot(T(forward), forward),
                 SMul(Scalar(inv_beta), Eye(Shape(forward)[2])))),
        T(forward))

\* pinv(forward.T.dot(forward) + inv_beta / inv_alpha * identity).dot(forward.T)
minimumnorm(forward, inv_alpha, inv_beta) ==
    Dot(Pinv(Add(Dot(T(forward), forward),
                 SMul(Div(inv_beta, inv_alpha), Eye(Shape(forward)[2])))),
        T(forward))

loreta_single_alpha(forward, coherence, inv_alpha, inv_beta) ==
    LET forward_and_coherence == Dot(coherence, forward)
        sigma_inv ==
            Add(SMul(Scalar(inv_alpha), Dot(T(forward), forward_and_coherence)),
                SMul(Scalar(inv_beta), Eye(Shape(forward)[2])))
    IN  Dot(Pinv(sigma_inv), T(forward_and_coherence))

loreta(forward, coherence, inv_alpha, inv_beta) ==
    LET forward_and_coherence == Dot(coherence, forward)
        sigma_inv ==
            Add(SMul(Scalar(inv_alpha), Dot(T(forward), forward_and_coherence)),
                SMul(Scalar(inv_beta), Eye(Shape(forward)[2])))
    IN  SMul(Scalar(inv_alpha),
             Dot(Pinv(sigma_inv), T(forward_and_coherence)))

\* an array expression numpy evaluates, or the ValueError of misaligned shapes
Evaluate(a) == IF Aligned(a) THEN Return(a) ELSE Raise("ValueError")

estimate_defaulting(fs, svn, hardware, method, forward, inv_alpha, inv_beta) ==
    IF method = "minimumnorm"
    THEN IF inv_alpha = 0
         THEN Out(fs, Raise("ZeroDivisionError"))
         ELSE Out(fs, Evaluate(minimumnorm(forward, inv_alpha, inv_beta)))
    ELSE LET c == spatial_coherence(fs, svn, hardware)
         IN  IF c.outcome # "ok" THEN c
             ELSE Out(c.fs, Evaluate(loreta(forward, c.result.values,
                                            inv_alpha, inv_beta)))

\* the if / elif / else on method
estimate(fs, svn, hardware, method, forward, inv_alpha, inv_beta) ==
    IF method = "minimumnorm"
    THEN IF inv_alpha = 0
         THEN Out(fs, Raise("ZeroDivisionError"))
         ELSE Out(fs, Evaluate(minimumnorm(forward, inv_alpha, inv_beta)))
    ELSE IF method = "LORETA"
    THEN LET c == spatial_coherence(fs, svn, hardware)
         IN  IF c.outcome # "ok" THEN c
             ELSE Out(c.fs, Evaluate(loreta(forward, c.result.values,
                                            inv_alpha, inv_beta)))
    ELSE Out(fs, Raise("ValueError"))

inverse_index_default(hardware) == electrode_names("emotiv")

\* inverse.index = self.electrode_names(hardware)
inverse_index(hardware) == electrode_names(hardware)

inverse_model(fs, svn, hardware, method, inv_alpha, inv_beta) ==
    LET u == unpack(fs, FALSE, svn)
        f == forward_model(u.fs, svn, hardware)
        e == estimate(f.fs, svn, hardware, method, f.result.values,
                      inv_alpha, inv_beta)
        names == inverse_index(hardware)
        labelled == SetIndex(Matrix(e.result), names.result.names)
    IN  IF u.err # "ok" THEN Out(u.fs, Raise(u.err))
        ELSE IF f.outcome # "ok" THEN f
        ELSE IF e.outcome # "ok" THEN e
        ELSE IF names.outcome # "ok" THEN Out(e.fs, names)
        ELSE Out(e.fs, labelled)

----------------------------------------------------------------------------
(* One caller: the state and the calls *)

Call(op, hardware, method, inv_alpha, inv_beta, o) ==
    [op |-> op, hardware |-> hardware, method |-> method, alpha |-> inv_alpha,
     beta |-> inv_beta, outcome |-> o.outcome, result |-> o.result]

NoCall == Call("none", "", "", 0, 0, [outcome |-> "none", result |-> NoResult])

Catalog0 == [emotiv |-> SBS2_ELECTRODES_EMOTIV, emocap |-> SBS2_ELECTRODES_EMOCAP]

ThreadIds == {1, 2}

ThreadInit ==
    /\ cwd = "home"
    /\ cwd_data = FALSE
    /\ tmp = [t \in ThreadIds |-> [exists |-> FALSE, data |-> FALSE]]
    /\ pc = [t \in ThreadIds |-> "idle"]
    /\ ret = [t \in ThreadIds |-> ""]
    /\ saved_dir = [t \in ThreadIds |-> ""]
    /\ tcall = [t \in ThreadIds |-> NoCall]
    /\ tres = [t \in ThreadIds |-> Raise("none")]

Init ==
    /\ remote \in Remotes
    /\ sbs2_dir \in BOOLEAN
    /\ sbs2_data \in BOOLEAN
    /\ sbs2_data => sbs2_dir
    /\ constructed = FALSE
    /\ catalog = Catalog0
    /\ held = ""
    /\ edits = 0
    /\ last = NoCall
    /\ kept = NoCall
    /\ since = 0
    /\ ThreadInit

\* the call is remembered, or not, for comparison with later calls
Record(call, keeps) ==
    /\ last' = call
    /\ \E keep \in keeps :
          IF keep /\ kept.op = "none" /\ call.outcome = "ok"
             /\ call.op \in {"forward_model", "inverse_model"}
          THEN kept' = call /\ since' = 0
          ELSE /\ kept' = kept
               /\ since' = IF kept.op = "none" THEN 0
                           ELSE IF since < MaxSince THEN since + 1 ELSE since

\* SBS2Data(redownload)
Construct(keeps) ==
    \E redownload \in BOOLEAN :
      \E svn \in SvnRuns(Disk(sbs2_dir, sbs2_data), redownload) :
        LET u == unpack(Disk(sbs2_dir, sbs2_data), redownload, svn)
        IN  /\ sbs2_dir' = u.fs.dir
            /\ sbs2_data' = u.fs.data
            /\ constructed' = (constructed \/ u.err = "ok")
            /\ Record(Call("SBS2Data", "", "", 0, 0, Raise(u.err)), keeps)
            /\ UNCHANGED <<remote, catalog, held, edits>>
            /\ UNCHANGED thrvars

\* SBS2Data.electrode_names(hardware): a static method
ElectrodeNames(keeps) ==
    \E hardware \in HardwareArgs :
        LET o == electrode_names(hardware)
        IN  /\ Record(Call("electrode_names", hardware, "", 0, 0, o), keeps)
            /\ held' = IF o.outcome = "ok" THEN hardware ELSE held
            /\ UNCHANGED <<remote, sbs2_dir, sbs2_data, constructed, catalog, edits>>
            /\ UNCHANGED thrvars

Finish(op, hardware, method, inv_alpha, inv_beta, o, keeps) ==
    /\ sbs2_dir' = o.fs.dir
    /\ sbs2_data' = o.fs.data
    /\ Record(Call(op, hardware, method, inv_alpha, inv_beta, o), keeps)
    /\ UNCHANGED <<remote, constructed, catalog, held, edits>>
    /\ UNCHANGED thrvars

ForwardModel(keeps) ==
    /\ constructed
    /\ \E hardware \in HardwareArgs, svn \in SvnRuns(Disk(sbs2_dir, sbs2_data), FALSE) :
          Finish("forward_model", hardware, "", 0, 0,
                 forward_model(Disk(sbs2_dir, sbs2_data), svn, hardware), keeps)

SpatialCoherence(keeps) ==
    /\ constructed
    /\ \E hardware \in HardwareArgs, svn \in SvnRuns(Disk(sbs2_dir, sbs2_data), FALSE) :
          Finish("spatial_coherence", hardware, "", 0, 0,
                 spatial_coherence(Disk(sbs2_dir, sbs2_data), svn, hardware), keeps)

InverseSpatialCoherence(keeps) ==
    /\ constructed
    /\ \E hardware \in HardwareArgs, svn \in SvnRuns(Disk(sbs2_dir, sbs2_data), FALSE) :
          Finish("inverse_spatial_coherence", hardware, "", 0, 0,
                 inverse_spatial_coherence(Disk(sbs2_dir, sbs2_data), svn, hardware),
                 keeps)

InverseModel(alphas, betas, keeps) ==
    /\ constructed
    /\ \E hardware \in HardwareArgs, method \in MethodArgs,
          inv_alpha \in alphas, inv_beta \in betas,
          svn \in SvnRuns(Disk(sbs2_dir, sbs2_data), FALSE) :
          Finish("inverse_model", hardware, method, inv_alpha, inv_beta,
                 inverse_model(Disk(sbs2_dir, sbs2_data), svn, hardware, method,
                               inv_alpha, inv_beta), keeps)

CoreNext(alphas, betas, keeps) ==
    \/ Construct(keeps)
    \/ ElectrodeNames(keeps)
    \/ ForwardModel(keeps)
    \/ SpatialCoherence(keeps)
    \/ InverseSpatialCoherence(keeps)
    \/ InverseModel(alphas, betas, keeps)

Next == CoreNext(AlphaArgs, BetaArgs, {FALSE})

Spec == Init /\ [][Next]_vars

\* the same calls with one pair of hyperparameter values and one earlier
\* call remembered
RepeatAlphas == {1, 2}
RepeatBetas == {2}

RepeatNext == CoreNext(RepeatAlphas, RepeatBetas, BOOLEAN)

SpecRepeat == Init /\ [][RepeatNext]_vars

----------------------------------------------------------------------------
(* A caller that edits, in place, the list electrode_names returned *)

ListEdits == {"append", "setitem", "pop"}

EditList(kind, names) ==
    CASE kind = "append" -> Append(names, "X")
      [] kind = "setitem" -> [names EXCEPT ![1] = "X"]
      [] kind = "pop" -> SubSeq(names, 1, Len(names) - 1)

\* electrode_names returns the module-level list itself (return electrodes),
\* so the edit is an edit of SBS2_ELECTRODES_EMOTIV / SBS2_ELECTRODES_EMOCAP
CallerEditsList ==
    /\ held # ""
    /\ edits < MaxEdits
    /\ \E kind \in ListEdits :
          catalog' = [catalog EXCEPT ![held] = EditList(kind, @)]
    /\ edits' = edits + 1
    /\ UNCHANGED <<remote, sbs2_dir, sbs2_data, constructed, held, last, kept, since>>
    /\ UNCHANGED thrvars

CallerNext ==
    \/ CoreNext(RepeatAlphas, RepeatBetas, {FALSE})
    \/ CallerEditsList

SpecCaller == Init /\ [][CallerNext]_vars

----------------------------------------------------------------------------
(* Two threads, each running SBS2Data().<operation>(...) *)

Sig(op, hardware, method, inv_alpha, inv_beta) ==
    [op |-> op, hardware |-> hardware, method |-> method, alpha |-> inv_alpha,
     beta |-> inv_beta]

ThreadCalls ==
    {Sig("forward_model", "emotiv", "", 0, 0),
     Sig("spatial_coherence", "emocap", "", 0, 0),
     Sig("inverse_model", "emotiv", "LORETA", 1, 2),
     Sig("inverse_model", "emocap", "minimumnorm", 2, 4)}

RunCall(fs, svn, c) ==
    CASE c.op = "forward_model" -> forward_model(fs, svn, c.hardware)
      [] c.op = "spatial_coherence" -> spatial_coherence(fs, svn, c.hardware)
      [] c.op = "inverse_spatial_coherence" ->
            inverse_spatial_coherence(fs, svn, c.hardware)
      [] c.op = "inverse_model" ->
            inverse_model(fs, svn, c.hardware, c.method, c.alpha, c.beta)

TmpName(t) == IF t = 1 THEN "tmp1" ELSE "tmp2"
TmpOwner(d) == IF d = "tmp1" THEN 1 ELSE 2

\* the directory d still exists
DirExists(d) == d = "home" \/ tmp[TmpOwner(d)].exists

Fail(t, e) ==
    /\ pc' = [pc EXCEPT ![t] = "done"]
    /\ tres' = [tres EXCEPT ![t] = Raise(e)]

\* unpack() returns: from __init__ on to the operation, whose first
\* statement is self.unpack(); from the operation on to the rest of it
Returned(t) ==
    IF ret[t] = "init"
    THEN pc' = [pc EXCEPT ![t] = "unpack"] /\ ret' = [ret EXCEPT ![t] = "op"]
    ELSE pc' = [pc EXCEPT ![t] = "body"] /\ ret' = ret

TStart(t) ==
    /\ pc[t] = "idle"
    /\ \E c \in ThreadCalls :
          /\ \A u \in ThreadIds \ {t} : pc[u] # "idle" => tcall[u] # c
          /\ tcall' = [tcall EXCEPT ![t] = c]
    /\ pc' = [pc EXCEPT ![t] = "unpack"]
    /\ ret' = [ret EXCEPT ![t] = "init"]
    /\ UNCHANGED <<cwd, cwd_data, tmp, saved_dir, tres>>
    /\ UNCHANGED seqvars

TUnpack(t) ==
    /\ pc[t] = "unpack"
    /\ IF ~sbs2_dir \/ ~sbs2_data
       THEN pc' = [pc EXCEPT ![t] = "make_dir"] /\ ret' = ret
       ELSE Returned(t)
    /\ UNCHANGED <<cwd, cwd_data, tmp, saved_dir, tcall, tres>>
    /\ UNCHANGED seqvars

\* if not exists(self.sbs2_dir):
TMakeDir(t) ==
    /\ pc[t] = "make_dir"
    /\ pc' = [pc EXCEPT ![t] = IF sbs2_dir THEN "getcwd" ELSE "makedirs"]
    /\ UNCHANGED <<cwd, cwd_data, tmp, ret, saved_dir, tcall, tres>>
    /\ UNCHANGED seqvars

\* makedirs(self.sbs2_dir): OSError if the directory exists by now
TMakedirs(t) ==
    /\ pc[t] = "makedirs"
    /\ IF sbs2_dir
       THEN Fail(t, "OSError") /\ sbs2_dir' = sbs2_dir
       ELSE /\ sbs2_dir' = TRUE
            /\ pc' = [pc EXCEPT ![t] = "getcwd"]
            /\ tres' = tres
    /\ UNCHANGED <<cwd, cwd_data, tmp, ret, saved_dir, tcall>>
    /\ UNCHANGED <<remote, sbs2_data, constructed, catalog, held, edits, last, kept, since>>

\* saved_dir = getcwd()
TGetcwd(t) ==
    /\ pc[t] = "getcwd"
    /\ IF DirExists(cwd)
       THEN /\ saved_dir' = [saved_dir EXCEPT ![t] = cwd]
            /\ pc' = [pc EXCEPT ![t] = "mkdtemp"]
            /\ tres' = tres
       ELSE Fail(t, "OSError") /\ saved_dir' = saved_dir
    /\ UNCHANGED <<cwd, cwd_data, tmp, ret, tcall>>
    /\ UNCHANGED seqvars

\* temp_dir = mkdtemp()
TMkdtemp(t) ==
    /\ pc[t] = "mkdtemp"
    /\ tmp' = [tmp EXCEPT ![t] = [exists |-> TRUE, data |-> FALSE]]
    /\ pc' = [pc EXCEPT ![t] = "chdir"]
    /\ UNCHANGED <<cwd, cwd_data, ret, saved_dir, tcall, tres>>
    /\ UNCHANGED seqvars

\* chdir(temp_dir)
TChdir(t) ==
    /\ pc[t] = "chdir"
    /\ cwd' = TmpName(t)
    /\ pc' = [pc EXCEPT ![t] = "svn"]
    /\ UNCHANGED <<cwd_data, tmp, ret, saved_dir, tcall, tres>>
    /\ UNCHANGED seqvars

\* call(['svn', 'export', SBS2_SVN_DIR]): writes sbs2_data into the working
\* directory the process has at this moment; svn leaves an existing
\* sbs2_data alone and its exit status is not looked at
TSvn(t) ==
    /\ pc[t] = "svn"
    /\ IF cwd = "home"
       THEN cwd_data' = TRUE /\ tmp' = tmp
       ELSE /\ cwd_data' = cwd_data
            /\ tmp' = IF tmp[TmpOwner(cwd)].exists
                      THEN [tmp EXCEPT ![TmpOwner(cwd)].data = TRUE]
                      ELSE tmp
    /\ pc' = [pc EXCEPT ![t] = "chdir_back"]
    /\ UNCHANGED <<cwd, ret, saved_dir, tcall, tres>>
    /\ UNCHANGED seqvars

\* finally: chdir(saved_dir)
TChdirBack(t) ==
    /\ pc[t] = "chdir_back"
    /\ IF DirExists(saved_dir[t])
       THEN /\ cwd' = saved_dir[t]
            /\ pc' = [pc EXCEPT ![t] = "move"]
            /\ tres' = tres
       ELSE Fail(t, "OSError") /\ cwd' = cwd
    /\ UNCHANGED <<cwd_data, tmp, ret, saved_dir, tcall>>
    /\ UNCHANGED seqvars

\* move(join(temp_dir, 'sbs2_data'), self.sbs2_dir)
TMove(t) ==
    /\ pc[t] = "move"
    /\ IF ~tmp[t].data
       THEN Fail(t, "IOError") /\ UNCHANGED <<tmp, sbs2_dir, sbs2_data>>
       ELSE IF sbs2_dir /\ sbs2_data
       THEN Fail(t, "ShutilError") /\ UNCHANGED <<tmp, sbs2_dir, sbs2_data>>
       ELSE /\ tmp' = [tmp EXCEPT ![t].data = FALSE]
            /\ sbs2_data' = sbs2_dir
            /\ sbs2_dir' = TRUE
            /\ pc' = [pc EXCEPT ![t] = "rmtree"]
            /\ tres' = tres
    /\ UNCHANGED <<cwd, cwd_data, ret, saved_dir, tcall>>
    /\ UNCHANGED <<remote, constructed, catalog, held, edits, last, kept, since>>

\* rmtree(temp_dir)
TRmtree(t) ==
    /\ pc[t] = "rmtree"
    /\ tmp' = [tmp EXCEPT ![t] = [exists |-> FALSE, data |-> FALSE]]
    /\ Returned(t)
    /\ UNCHANGED <<cwd, cwd_data, saved_dir, tcall, tres>>
    /\ UNCHANGED seqvars

\* the rest of the operation, after its self.unpack()
TBody(t) ==
    /\ pc[t] = "body"
    /\ LET o == RunCall(Disk(sbs2_dir, sbs2_data), "ok", tcall[t])
       IN  /\ tres' = [tres EXCEPT ![t] = [outcome |-> o.outcome, result |-> o.result]]
           /\ sbs2_dir' = o.fs.dir
           /\ sbs2_data' = o.fs.data
    /\ pc' = [pc EXCEPT ![t] = "done"]
    /\ UNCHANGED <<cwd, cwd_data, tmp, ret, saved_dir, tcall>>
    /\ UNCHANGED <<remote, constructed, catalog, held, edits, last, kept, since>>

ThreadNext ==
    \E t \in ThreadIds :
        \/ TStart(t)
        \/ TUnpack(t)
        \/ TMakeDir(t)
        \/ TMakedirs(t)
        \/ TGetcwd(t)
        \/ TMkdtemp(t)
        \/ TChdir(t)
        \/ TSvn(t)
        \/ TChdirBack(t)
        \/ TMove(t)
        \/ TRmtree(t)
        \/ TBody(t)

ThreadsInit == Init /\ remote = HealthyRemote

SpecThreads == ThreadsInit /\ [][ThreadNext]_vars

\* SBS2Data().<operation>(...) run with no other thread, from a disk fs0
\* and with svn working
InitialDisks == {Disk(FALSE, FALSE), Disk(TRUE, FALSE), Disk(TRUE, TRUE)}

RunAlone(fs0, c) ==
    LET u == unpack(fs0, FALSE, "ok")
        o == RunCall(u.fs, "ok", c)
    IN  IF u.err # "ok" THEN Raise(u.err)
        ELSE [outcome |-> o.outcome, result |-> o.result]

----------------------------------------------------------------------------
(* The claims *)

CoreOps ==
    {"forward_model", "spatial_coherence", "inverse_spatial_coherence",
     "inverse_model"}

FixedNames(hardware) ==
    IF hardware = "emotiv" THEN SBS2_ELECTRODES_EMOTIV ELSE SBS2_ELECTRODES_EMOCAP

\* the forward asset of a supported hardware is on disk and has one row per
\* electrode
ForwardObtainable(hardware) ==
    /\ sbs2_data
    /\ remote[hardware][ForwardFile].present
    /\ Rows(remote[hardware][ForwardFile].values) = Len(FixedNames(hardware))

\* F: the raw forward asset, every entry times 1,000,000, transposed
ScaledForward(hardware) ==
    LET R == remote[hardware][ForwardFile].values
    IN  Lit([s \in 1..Cols(R) |-> [c \in 1..Rows(R) |-> 1000000 * R[c][s]]])

\* C1: a core operation called with a hardware identifier other than
\* "emotiv" / "emocap" fails with ValueError, not with a file error and not
\* with a result.
C1_InvalidHardwareIsValueError ==
    (last.op \in CoreOps /\ last.hardware \notin HardwareDirs)
        => (last.outcome = "ValueError" /\ last.result = NoResult)

\* C2: with a supported hardware whose forward asset is obtainable,
\* inverse_model with a method other than "minimumnorm" / "LORETA" fails with
\* ValueError and returns nothing, for every alpha and beta.
C2_UnknownMethodIsValueError ==
    (/\ last.op = "inverse_model"
     /\ last.hardware \in HardwareDirs
     /\ last.method \notin Methods
     /\ ForwardObtainable(last.hardware))
        => (last.outcome = "ValueError" /\ last.result = NoResult)

C2_Witness ==
    /\ last.op = "inverse_model"
    /\ last.hardware = "emocap"
    /\ last.method = "bogus"
    /\ last.alpha = 0
    /\ ForwardObtainable(last.hardware)
    /\ remote[last.hardware][CoherenceFile].present
    /\ last.outcome = "ValueError"

C3_Result ==
    /\ Len(SBS2_ELECTRODES_EMOTIV) = 14
    /\ Len(SBS2_ELECTRODES_EMOCAP) = 14
    /\ SBS2_ELECTRODES_EMOTIV # SBS2_ELECTRODES_EMOCAP
    /\ last.hardware = "emotiv"
          => (last.outcome = "ok" /\ last.result = Names(SBS2_ELECTRODES_EMOTIV))
    /\ last.hardware = "emocap"
          => (last.outcome = "ok" /\ last.result = Names(SBS2_ELECTRODES_EMOCAP))
    /\ last.hardware \notin {"emotiv", "emocap"}
          => (last.outcome = "ValueError" /\ last.result = NoResult)

\* C3: every call of electrode_names returns the fixed 14-name sequence of
\* "emotiv" or of "emocap" (two different sequences), fails with ValueError
\* for any other argument, and changes neither the disk nor the catalog nor,
\* when it fails, anything the caller holds.
C3_ElectrodeNames ==
    [][ElectrodeNames({FALSE})
         => /\ C3_Result'
            /\ UNCHANGED <<remote, sbs2_dir, sbs2_data, constructed, catalog>>
            /\ (last'.outcome # "ok" => held' = held)]_vars

C3_Witness ==
    /\ last.op = "electrode_names"
    /\ last.hardware = "emocap"
    /\ last.outcome = "ok"
    /\ Len(last.result.names) = 14
    /\ constructed

\* C4: whatever the caller did with returned values, electrode_names returns
\* the original sequence and forward_model / inverse_model label their
\* channel axis with it.
C4_CatalogImmutable ==
    /\ (last.op = "electrode_names" /\ last.outcome = "ok")
          => last.result.names = FixedNames(last.hardware)
    /\ (last.op = "forward_model" /\ last.outcome = "ok")
          => last.result.columns.names = FixedNames(last.hardware)
    /\ (last.op = "inverse_model" /\ last.outcome = "ok")
          => last.result.index.names = FixedNames(last.hardware)

\* C5: forward_model returns M (sources x channels) with
\* M[s][c] = 1,000,000 * R[c][s] for the raw asset R (channels x sources),
\* column c labelled with the c-th electrode name of the hardware.
C5_ForwardModelScaledTransposed ==
    (last.op = "forward_model" /\ last.outcome = "ok")
        => LET R == remote[last.hardware][ForwardFile].values
               M == last.result.values
           IN  /\ M.op = "lit"
               /\ Rows(M.m) = Cols(R)
               /\ \A s \in 1..Rows(M.m) :
                     /\ Len(M.m[s]) = Rows(R)
                     /\ \A c \in 1..Rows(R) : M.m[s][c] = 1000000 * R[c][s]
               /\ last.result.columns.kind = "names"
               /\ last.result.columns.n = Rows(R)
               /\ \A c \in 1..Rows(R) :
                     last.result.columns.names[c] = FixedNames(last.hardware)[c]
               /\ last.result.index = RangeIndex(Cols(R))

C5_Witness ==
    /\ last.op = "forward_model"
    /\ last.outcome = "ok"
    /\ last.hardware = "emocap"
    /\ Shape(last.result.values) = <<MaxSources, 14>>
    /\ \E s \in 1..MaxSources, c \in 1..14 :
          /\ last.result.values.m[s][c] # 0
          /\ last.result.values.m[s][c] # last.result.values.m[1][1]

C7_Loreta ==
    (last.op = "inverse_model" /\ last.outcome = "ok" /\ last.method = "LORETA")
        => LET F == ScaledForward(last.hardware)
               L == Lit(remote[last.hardware][CoherenceFile].values)
               I == Eye(Len(FixedNames(last.hardware)))
               a == Scalar(last.alpha)
               b == Scalar(last.beta)
               LF == Dot(L, F)
           IN  last.result.values =
                   SMul(a, Dot(Pinv(Add(SMul(a, Dot(T(F), LF)), SMul(b, I))),
                               [op |-> "T", a |-> LF]))

C7_Witness ==
    /\ last.op = "inverse_model"
    /\ last.outcome = "ok"
    /\ last.method = "LORETA"
    /\ last.alpha = 2
    /\ last.beta = 4

\* the fractions num/den in lowest terms that equal beta/alpha
Ratios(inv_alpha, inv_beta) ==
    {k \in [num : 0..inv_beta, den : 1..inv_alpha] :
        /\ k.num * inv_alpha = k.den * inv_beta
        /\ \A d \in 2..inv_alpha : ~(k.num % d = 0 /\ k.den % d = 0)}

\* C8: with "minimumnorm", alpha > 0 and the forward asset obtainable,
\* inverse_model returns pinv(F'F + (beta/alpha) I) F', whether or not the
\* spatial-coherence asset can be read; alpha and beta enter only as the
\* ratio beta/alpha.
C8_MinimumNorm ==
    (/\ last.op = "inverse_model"
     /\ last.method = "minimumnorm"
     /\ last.alpha > 0
     /\ last.hardware \in HardwareDirs
     /\ ForwardObtainable(last.hardware))
        => LET F == ScaledForward(last.hardware)
               I == Eye(Len(FixedNames(last.hardware)))
           IN  /\ last.outcome = "ok"
               /\ Cardinality(Ratios(last.alpha, last.beta)) = 1
               /\ \A k \in Ratios(last.alpha, last.beta) :
                     last.result.values =
                         Dot(Pinv(Add(Dot(T(F), F), SMul(k, I))), T(F))

C8_Witness ==
    /\ last.op = "inverse_model"
    /\ last.method = "minimumnorm"
    /\ last.alpha = 2
    /\ last.beta = 4
    /\ last.hardware = "emotiv"
    /\ ~remote["emotiv"][CoherenceFile].present
    /\ last.outcome = "ok"

SameCall(c, d) ==
    /\ c.op = d.op
    /\ c.hardware = d.hardware
    /\ c.method = d.method
    /\ c.alpha = d.alpha
    /\ c.beta = d.beta

\* C9: a call of forward_model or inverse_model returns the matrix an
\* earlier call with the same arguments returned, whatever was called
\* before and in between.
C9_RepeatedCallsAgree ==
    (/\ last.op \in {"forward_model", "inverse_model"}
     /\ last.outcome = "ok"
     /\ SameCall(last, kept))
        => last.result = kept.result

C9_Witness ==
    /\ last.op = "inverse_model"
    /\ last.outcome = "ok"
    /\ SameCall(last, kept)
    /\ since = MaxSince
    /\ last.hardware = "emocap"

\* C10: a call run on a thread ends as it ends when run with no other
\* thread.
C10_ThreadsIndependent ==
    \A t \in ThreadIds :
        pc[t] = "done"
            => \A fs0 \in InitialDisks : tres[t] = RunAlone(fs0, tcall[t])

====
